---- MODULE Spec2Model ----
(***************************************************************************)
(* KNX USB HID report framing (xknx/usb/knx_hid_frame.py).                 *)
(*                                                                         *)
(* The codec is a family of pure functions on byte strings and objects.    *)
(* Byte strings are sequences over 0..255; objects are records.  A Python  *)
(* reference that is None is a record with present = FALSE, an enum field  *)
(* that is None holds the value None.  A call that raises is a result with *)
(* raised # "none" and no object.                                          *)
(***************************************************************************)
EXTENDS Integers, Sequences, FiniteSets

VARIABLES
    op,         \* the call that produced the current objects
    data,       \* bytes given to the last from_knx call
    partial,    \* the partial argument of the last call
    raised,     \* exception the last call raised, "none" when it returned
    packet_info,\* the PacketInfo object returned by the last PacketInfo call
    header,     \* the KNXHIDReportHeader object in hand
    body,       \* the KNXHIDReportBody object in hand
    frame,      \* the KNXHIDFrame object in hand
    built,      \* the frame from_data built, kept while it is encoded and decoded back
    wire,       \* bytes the last KNXHIDFrame.to_knx returned
    sent        \* bytes that were decoded back from the wire

vars == <<op, data, partial, raised, packet_info, header, body, frame, built, wire, sent>>

----------------------------------------------------------------------------
(* Bounds of the model *)

\* longest byte string handed to a from_knx call
MaxInputLen == 66
\* longest emi_data handed to from_data
MaxPayloadLen == 63
\* largest data_length handed to KNXHIDReportHeader.from_data
MaxDataLength == 63

----------------------------------------------------------------------------
(* Python helpers *)

None == 0 - 1

Min(a, b) == IF a < b THEN a ELSE b

\* s[a:b]
PySlice(s, a, b) == SubSeq(s, a + 1, Min(b, Len(s)))

\* s[a:]
PyFrom(s, a) == SubSeq(s, a + 1, Len(s))

\* struct.pack(f"{n}s", s): cut to n bytes, padded with null bytes
PackS(s, n) == [i \in 1..n |-> IF i <= Len(s) THEN s[i] ELSE 0]

\* truthiness of an Optional enum field (None, or a member with a non-zero value)
Truthy(v) == v # None /\ v # 0

----------------------------------------------------------------------------
(* knx_hid_datatypes: the enumerations' integer-to-member mappings *)

SequenceNumber == 1..5

PacketType == {3, 4, 5, 6}

ProtocolID == {1, 15}

EMIID == {1, 2, 3}

----------------------------------------------------------------------------
(* knx_hid_transfer: the transfer protocol header (8 octets) and body *)

header_length == 8

\* KNXHIDReportBody._max_size
max_size == 61

NoTransferHeader ==
    [present |-> FALSE, protocol_version |-> 0, header_length |-> header_length,
     body_length |-> 0, protocol_id |-> None, emi_id |-> None,
     manufacturer_code |-> 0, is_valid |-> FALSE]

\* KNXUSBTransferProtocolHeader.from_data(KNXUSBTransferProtocolHeaderData(...))
KNXUSBTransferProtocolHeader_from_data(body_length, protocol_id, emi_id) ==
    [NoTransferHeader EXCEPT !.present = TRUE, !.body_length = body_length,
                             !.protocol_id = protocol_id, !.emi_id = emi_id,
                             !.is_valid = TRUE]

\* KNXUSBTransferProtocolHeader.from_knx(data)
KNXUSBTransferProtocolHeader_from_knx(d) ==
    IF Len(d) # header_length
    THEN [NoTransferHeader EXCEPT !.present = TRUE]
    ELSE [present |-> TRUE, protocol_version |-> d[1], header_length |-> d[2],
          body_length |-> d[3] * 256 + d[4], protocol_id |-> d[5], emi_id |-> d[6],
          manufacturer_code |-> d[7] * 256 + d[8],
          is_valid |-> d[1] = 0 /\ d[2] = header_length
                       /\ d[5] \in ProtocolID /\ d[6] \in EMIID]

\* KNXUSBTransferProtocolHeader.to_knx()
KNXUSBTransferProtocolHeader_to_knx(h) ==
    IF h.is_valid
    THEN <<h.protocol_version, h.header_length,
           (h.body_length \div 256) % 256, h.body_length % 256,
           h.protocol_id, h.emi_id,
           (h.manufacturer_code \div 256) % 256, h.manufacturer_code % 256>>
    ELSE <<>>

NoTransferBody == [present |-> FALSE, data |-> <<>>, is_valid |-> FALSE]

\* KNXUSBTransferProtocolBody.from_data(KNXUSBTransferProtocolBodyData(emi_data, partial))
KNXUSBTransferProtocolBody_from_data(emi_data, p) ==
    [present |-> TRUE, data |-> emi_data, is_valid |-> TRUE]

\* KNXUSBTransferProtocolBody.from_knx(data)
KNXUSBTransferProtocolBody_from_knx(d) ==
    [present |-> TRUE, data |-> d, is_valid |-> TRUE]

\* KNXUSBTransferProtocolBody.to_knx(partial): the payload, zero-filled to the
\* room the report body leaves it (61 octets, 53 after a transfer header)
KNXUSBTransferProtocolBody_to_knx(b, p) ==
    IF b.is_valid
    THEN PackS(b.data, IF p THEN max_size ELSE max_size - header_length)
    ELSE <<>>

\* KNXUSBTransferProtocolBody.length
KNXUSBTransferProtocolBody_length(b) == Len(b.data)

----------------------------------------------------------------------------
(* PacketInfo *)

\* PacketInfo.__init__
PacketInfo_new == [present |-> TRUE, sequence_number |-> None, packet_type |-> None]

\* a reference to a PacketInfo that is None
NoPacketInfo == [present |-> FALSE, sequence_number |-> None, packet_type |-> None]

\* PacketInfo.from_data
PacketInfo_from_data(sequence_number, packet_type) ==
    [present |-> TRUE, sequence_number |-> sequence_number, packet_type |-> packet_type]

PacketInfo_init_swapped(d) ==
    IF Len(d) # 1
    THEN [raised |-> "none", obj |-> PacketInfo_new]
    ELSE IF d[1] % 16 \notin SequenceNumber
    THEN [raised |-> "ValueError", obj |-> NoPacketInfo]
    ELSE IF d[1] \div 16 \notin PacketType
    THEN [raised |-> "ValueError", obj |-> NoPacketInfo]
    ELSE [raised |-> "none", obj |-> PacketInfo_from_data(d[1] % 16, d[1] \div 16)]

\* PacketInfo.from_knx: PacketInfo() then _init(data).  An enumeration called
\* with a value it does not map rejects it by raising ValueError, which
\* nothing here catches.
PacketInfo_from_knx(d) ==
    IF Len(d) # 1
    THEN [raised |-> "none", obj |-> PacketInfo_new]
    ELSE IF d[1] \div 16 \notin SequenceNumber
    THEN [raised |-> "ValueError", obj |-> NoPacketInfo]
    ELSE IF d[1] % 16 \notin PacketType
    THEN [raised |-> "ValueError", obj |-> NoPacketInfo]
    ELSE [raised |-> "none", obj |-> PacketInfo_from_data(d[1] \div 16, d[1] % 16)]

\* PacketInfo.to_knx
PacketInfo_to_knx(pi) ==
    IF Truthy(pi.sequence_number) /\ Truthy(pi.packet_type)
    THEN <<(pi.sequence_number * 16 + pi.packet_type) % 256>>
    ELSE <<>>

----------------------------------------------------------------------------
(* KNXHIDReportHeader *)

max_expected_data_length == 61

\* KNXHIDReportHeader.__init__
KNXHIDReportHeader_new ==
    [present |-> TRUE, report_id |-> 1, packet_info |-> NoPacketInfo,
     data_length |-> 0, valid |-> FALSE]

NoReportHeader == [KNXHIDReportHeader_new EXCEPT !.present = FALSE]

\* KNXHIDReportHeader.from_data(KNXHIDReportHeaderData(packet_info, data_length))
KNXHIDReportHeader_from_data(pi, data_length) ==
    IF data_length <= max_expected_data_length
    THEN [KNXHIDReportHeader_new EXCEPT !.packet_info = pi,
                                        !.data_length = data_length, !.valid = TRUE]
    ELSE [KNXHIDReportHeader_new EXCEPT !.packet_info = pi]

\* KNXHIDReportHeader.from_knx: KNXHIDReportHeader() then _init(data).
\* data[0] and data[2] raise IndexError on a string too short to hold them;
\* the slice data[1:2] never raises.
KNXHIDReportHeader_from_knx(d) ==
    IF Len(d) > max_expected_data_length
    THEN [raised |-> "none", obj |-> KNXHIDReportHeader_new]
    ELSE IF Len(d) < 1
    THEN [raised |-> "IndexError", obj |-> NoReportHeader]
    ELSE LET pi == PacketInfo_from_knx(PySlice(d, 1, 2)) IN
         IF pi.raised # "none"
         THEN [raised |-> pi.raised, obj |-> NoReportHeader]
         ELSE IF Len(d) < 3
         THEN [raised |-> "IndexError", obj |-> NoReportHeader]
         ELSE [raised |-> "none",
               obj |-> [present |-> TRUE, report_id |-> d[1], packet_info |-> pi.obj,
                        data_length |-> d[3], valid |-> (d[1] = 1)]]

\* KNXHIDReportHeader.to_knx: struct.pack("<B1sB", ...); "1s" turns the empty
\* string of an unset PacketInfo into one null byte
KNXHIDReportHeader_to_knx(h) ==
    IF h.valid
    THEN <<h.report_id>> \o PackS(PacketInfo_to_knx(h.packet_info), 1) \o <<h.data_length>>
    ELSE <<>>

\* KNXHIDReportHeader.report_id setter
KNXHIDReportHeader_set_report_id(h, value) == [h EXCEPT !.report_id = value]

----------------------------------------------------------------------------
(* KNXHIDReportBody *)

\* KNXHIDReportBody.__init__
KNXHIDReportBody_new ==
    [present |-> TRUE, header |-> NoTransferHeader, body |-> NoTransferBody,
     is_valid |-> FALSE, partial |-> FALSE]

NoReportBody == [KNXHIDReportBody_new EXCEPT !.present = FALSE]

KNXHIDReportBody_from_data_always_header(protocol_id, emi_id, emi_data, p) ==
    LET b == KNXUSBTransferProtocolBody_from_data(emi_data, p)
        h == KNXUSBTransferProtocolHeader_from_data(
                 KNXUSBTransferProtocolBody_length(b), protocol_id, emi_id)
    IN  [KNXHIDReportBody_new EXCEPT !.header = h, !.body = b,
                                     !.is_valid = h.is_valid /\ b.is_valid]

\* KNXHIDReportBody.from_data(KNXHIDReportBodyData(protocol_id, emi_id, emi_data, partial));
\* _partial is not assigned here and keeps the False of __init__
KNXHIDReportBody_from_data(protocol_id, emi_id, emi_data, p) ==
    LET b == KNXUSBTransferProtocolBody_from_data(emi_data, p) IN
    IF p
    THEN [KNXHIDReportBody_new EXCEPT !.body = b, !.is_valid = b.is_valid]
    ELSE LET h == KNXUSBTransferProtocolHeader_from_data(
                      KNXUSBTransferProtocolBody_length(b), protocol_id, emi_id)
         IN  [KNXHIDReportBody_new EXCEPT !.header = h, !.body = b,
                                          !.is_valid = h.is_valid /\ b.is_valid]

KNXHIDReportBody_init_at_most(d, p) ==
    IF Len(d) > max_size
    THEN KNXHIDReportBody_new
    ELSE IF p
    THEN LET b == KNXUSBTransferProtocolBody_from_knx(d) IN
         [KNXHIDReportBody_new EXCEPT !.partial = TRUE, !.body = b,
                                      !.is_valid = b.is_valid]
    ELSE LET h == KNXUSBTransferProtocolHeader_from_knx(PySlice(d, 0, 8))
             b == KNXUSBTransferProtocolBody_from_knx(PyFrom(d, 8))
         IN  [KNXHIDReportBody_new EXCEPT !.header = h, !.body = b,
                                          !.is_valid = h.is_valid /\ b.is_valid]

\* KNXHIDReportBody.from_knx: KNXHIDReportBody() then _init(data, partial)
KNXHIDReportBody_from_knx(d, p) ==
    IF Len(d) # max_size
    THEN KNXHIDReportBody_new
    ELSE IF p
    THEN LET b == KNXUSBTransferProtocolBody_from_knx(d) IN
         [KNXHIDReportBody_new EXCEPT !.partial = TRUE, !.body = b,
                                      !.is_valid = b.is_valid]
    ELSE LET h == KNXUSBTransferProtocolHeader_from_knx(PySlice(d, 0, 8))
             b == KNXUSBTransferProtocolBody_from_knx(PyFrom(d, 8))
         IN  [KNXHIDReportBody_new EXCEPT !.header = h, !.body = b,
                                          !.is_valid = h.is_valid /\ b.is_valid]

\* KNXHIDReportBody.to_knx
KNXHIDReportBody_to_knx(b) ==
    IF b.header.present /\ b.body.present
    THEN KNXUSBTransferProtocolHeader_to_knx(b.header)
             \o KNXUSBTransferProtocolBody_to_knx(b.body, b.partial)
    ELSE <<>>

KNXHIDReportBody_length_payload_only(b) ==
    IF b.body.present THEN KNXUSBTransferProtocolBody_length(b.body) ELSE 0

\* KNXHIDReportBody.length
KNXHIDReportBody_length(b) ==
    IF b.partial /\ b.body.present
    THEN KNXUSBTransferProtocolBody_length(b.body)
    ELSE IF b.header.present /\ b.body.present
    THEN b.header.header_length + KNXUSBTransferProtocolBody_length(b.body)
    ELSE 0

----------------------------------------------------------------------------
(* KNXHIDFrame *)

expected_byte_count == 64

\* a reference to a KNXHIDFrame that is None
NoFrame ==
    [present |-> FALSE, header |-> NoReportHeader, body |-> NoReportBody,
     is_valid |-> FALSE, partial |-> FALSE]

\* KNXHIDFrame.from_data(KNXHIDFrameData(packet_info, KNXHIDReportBodyData(...)))
KNXHIDFrame_from_data(pi, protocol_id, emi_id, emi_data, p) ==
    LET b == KNXHIDReportBody_from_data(protocol_id, emi_id, emi_data, p)
        h == KNXHIDReportHeader_from_data(pi, KNXHIDReportBody_length(b))
    IN  [present |-> TRUE, header |-> h, body |-> b, partial |-> p,
         is_valid |-> IF p THEN b.is_valid ELSE h.valid /\ b.is_valid]

KNXHIDFrame_init_body_only(d, p) ==
    LET h == KNXHIDReportHeader_from_knx(PySlice(d, 0, 3)) IN
    IF h.raised # "none"
    THEN [raised |-> h.raised, obj |-> NoFrame]
    ELSE LET b == KNXHIDReportBody_from_knx(PyFrom(d, 3), p) IN
         [raised |-> "none",
          obj |-> [present |-> TRUE, header |-> h.obj, body |-> b, partial |-> p,
                   is_valid |-> b.is_valid]]

\* KNXHIDFrame.from_knx: KNXHIDFrame() then _init(data, partial); an input
\* shorter than 64 octets is logged and decoded all the same
KNXHIDFrame_from_knx(d, p) ==
    LET h == KNXHIDReportHeader_from_knx(PySlice(d, 0, 3)) IN
    IF h.raised # "none"
    THEN [raised |-> h.raised, obj |-> NoFrame]
    ELSE LET b == KNXHIDReportBody_from_knx(PyFrom(d, 3), p) IN
         [raised |-> "none",
          obj |-> [present |-> TRUE, header |-> h.obj, body |-> b, partial |-> p,
                   is_valid |-> h.obj.valid /\ b.is_valid]]

\* KNXHIDFrame.to_knx
KNXHIDFrame_to_knx(f) ==
    KNXHIDReportHeader_to_knx(f.header) \o KNXHIDReportBody_to_knx(f.body)

----------------------------------------------------------------------------
(* Inputs of the calls *)

\* n octets, the i-th being first + i
Ramp(first, n) == [i \in 1..n |-> (first + i) % 256]

ReportIdSamples == {0, 1, 2}

\* descriptor octets: sequence number 0, 1, 5, 6 and 15 with a mapped packet
\* type, and sequence number 1 with packet type 0
DescriptorSamples == {3, 19, 83, 99, 243, 16}

DataLengthSamples == {18, 61, 255}

\* the first 8 octets of a report body: a transfer header, and one whose
\* protocol id is not mapped
TransferHeaderSamples == {<<0, 8, 0, 10, 1, 3, 0, 0>>, <<0, 8, 0, 10, 9, 3, 0, 0>>}

\* report bodies (transfer header first) of every length up to MaxInputLen
BodyInputs ==
    { PySlice(t \o Ramp(170, MaxInputLen), 0, n) :
        t \in TransferHeaderSamples, n \in 0..MaxInputLen }

\* reports (report header first) of every length up to MaxInputLen
Inputs ==
    { PySlice(<<r, s, l>> \o t \o Ramp(170, MaxInputLen), 0, n) :
        r \in ReportIdSamples, s \in DescriptorSamples, l \in DataLengthSamples,
        t \in TransferHeaderSamples, n \in 0..MaxInputLen }

\* the byte strings given to PacketInfo.from_knx: every single octet, and
\* strings of the wrong length
PacketInfoInputs == { <<b>> : b \in 0..255 } \cup { <<>>, <<19, 19>> }

\* the PacketInfo objects a caller can hold: one with both fields unset (what
\* PacketInfo(), and from_knx of a string of the wrong length, return) and
\* those with both fields set
PacketInfoObjects ==
    { PacketInfo_new } \cup { PacketInfo_from_data(s, t) : s \in {1, 5}, t \in {3, 6} }

Payloads == { Ramp(170, n) : n \in 0..MaxPayloadLen }

----------------------------------------------------------------------------
(* The calls *)

Init ==
    /\ op = "none"
    /\ data = <<>>
    /\ partial = FALSE
    /\ raised = "none"
    /\ packet_info = NoPacketInfo
    /\ header = NoReportHeader
    /\ body = NoReportBody
    /\ frame = NoFrame
    /\ built = NoFrame
    /\ wire = <<>>
    /\ sent = <<>>

\* Every from_knx and from_data call is made with no object in hand and
\* leaves its result, or the exception it raised, behind.

PacketInfoFromKnx ==
    /\ op = "none"
    /\ \E d \in PacketInfoInputs :
        LET res == PacketInfo_from_knx(d) IN
        /\ op' = "PacketInfo.from_knx"
        /\ data' = d
        /\ raised' = res.raised
        /\ packet_info' = res.obj
    /\ UNCHANGED <<partial, header, body, frame, built, wire, sent>>

HeaderFromKnx ==
    /\ op = "none"
    /\ \E d \in Inputs :
        LET res == KNXHIDReportHeader_from_knx(d) IN
        /\ op' = "KNXHIDReportHeader.from_knx"
        /\ data' = d
        /\ raised' = res.raised
        /\ header' = res.obj
    /\ UNCHANGED <<partial, packet_info, body, frame, built, wire, sent>>

HeaderFromData ==
    /\ op = "none"
    /\ \E pi \in PacketInfoObjects, n \in 0..MaxDataLength :
        /\ op' = "KNXHIDReportHeader.from_data"
        /\ header' = KNXHIDReportHeader_from_data(pi, n)
    /\ UNCHANGED <<data, partial, raised, packet_info, body, frame, built, wire, sent>>

\* header.report_id = value, on a header a call returned
HeaderSetReportId ==
    /\ header.present
    /\ \E value \in ReportIdSamples :
           header' = KNXHIDReportHeader_set_report_id(header, value)
    /\ UNCHANGED <<op, data, partial, raised, packet_info, body, frame, built, wire, sent>>

BodyFromKnx ==
    /\ op = "none"
    /\ \E d \in BodyInputs \cup Inputs, p \in BOOLEAN :
        /\ op' = "KNXHIDReportBody.from_knx"
        /\ data' = d
        /\ partial' = p
        /\ body' = KNXHIDReportBody_from_knx(d, p)
    /\ UNCHANGED <<raised, packet_info, header, frame, built, wire, sent>>

BodyFromData ==
    /\ op = "none"
    /\ \E protocol_id \in ProtocolID, emi_id \in EMIID, emi_data \in Payloads, p \in BOOLEAN :
        /\ op' = "KNXHIDReportBody.from_data"
        /\ data' = emi_data
        /\ partial' = p
        /\ body' = KNXHIDReportBody_from_data(protocol_id, emi_id, emi_data, p)
    /\ UNCHANGED <<raised, packet_info, header, frame, built, wire, sent>>

FrameFromKnx ==
    /\ op = "none"
    /\ \E d \in Inputs, p \in BOOLEAN :
        LET res == KNXHIDFrame_from_knx(d, p) IN
        /\ op' = "KNXHIDFrame.from_knx"
        /\ data' = d
        /\ partial' = p
        /\ raised' = res.raised
        /\ frame' = res.obj
    /\ UNCHANGED <<packet_info, header, body, built, wire, sent>>

FrameFromData ==
    /\ op = "none"
    /\ \E pi \in PacketInfoObjects, protocol_id \in ProtocolID, emi_id \in EMIID,
          emi_data \in Payloads, p \in BOOLEAN :
        LET f == KNXHIDFrame_from_data(pi, protocol_id, emi_id, emi_data, p) IN
        /\ op' = "KNXHIDFrame.from_data"
        /\ data' = emi_data
        /\ partial' = p
        /\ frame' = f
        /\ built' = f
    /\ UNCHANGED <<raised, packet_info, header, body, wire, sent>>

\* frame.to_knx() on the frame in hand
FrameToKnx ==
    /\ frame.present
    /\ op \in {"KNXHIDFrame.from_data", "KNXHIDFrame.from_knx", "KNXHIDFrame.from_knx(wire)"}
    /\ op' = "KNXHIDFrame.to_knx"
    /\ wire' = KNXHIDFrame_to_knx(frame)
    /\ UNCHANGED <<data, partial, raised, packet_info, header, body, frame, built, sent>>

\* KNXHIDFrame.from_knx on the octets to_knx has just returned
FrameFromWire ==
    /\ op = "KNXHIDFrame.to_knx"
    /\ \E p \in BOOLEAN :
        LET res == KNXHIDFrame_from_knx(wire, p) IN
        /\ op' = "KNXHIDFrame.from_knx(wire)"
        /\ data' = wire
        /\ partial' = p
        /\ raised' = res.raised
        /\ frame' = res.obj
        /\ sent' = wire
        /\ UNCHANGED <<packet_info, header, body, built, wire>>

\* the caller drops the objects in hand; nothing of them outlives the call
Discard ==
    /\ op # "none"
    /\ op' = "none"
    /\ data' = <<>>
    /\ partial' = FALSE
    /\ raised' = "none"
    /\ packet_info' = NoPacketInfo
    /\ header' = NoReportHeader
    /\ body' = NoReportBody
    /\ frame' = NoFrame
    /\ built' = NoFrame
    /\ wire' = <<>>
    /\ sent' = <<>>

Next ==
    \/ PacketInfoFromKnx
    \/ HeaderFromKnx
    \/ HeaderFromData
    \/ HeaderSetReportId
    \/ BodyFromKnx
    \/ BodyFromData
    \/ FrameFromKnx
    \/ FrameFromData
    \/ FrameToKnx
    \/ FrameFromWire
    \/ Discard

Spec == Init /\ [][Next]_vars

----------------------------------------------------------------------------
(* Properties *)

\* the frame in hand is the one from_data built, not yet decoded back
FrameIsBuilt == built.present /\ frame = built /\ sent = <<>>

\* C1: a frame built by from_data with partial = false, a payload of at most
\* 53 octets and is_valid = true survives the round trip: decoding its
\* encoding with partial = false returns a frame, and encoding that frame
\* gives the same octets again.
C1_RoundTrip ==
    ( /\ built.present
      /\ ~built.partial
      /\ built.is_valid
      /\ Len(built.body.body.data) <= max_size - header_length
      /\ sent = KNXHIDFrame_to_knx(built)
      /\ op \in {"KNXHIDFrame.from_knx(wire)", "KNXHIDFrame.to_knx"}
      /\ ~partial )
    => /\ raised = "none"
       /\ frame.present
       /\ op = "KNXHIDFrame.to_knx" => wire = sent

\* C2: to_knx of a frame whose is_valid is true, built or decoded, partial or
\* not, returns exactly 64 octets.
C2_EncodedLength ==
    (op = "KNXHIDFrame.to_knx" /\ frame.is_valid)
    => Len(wire) = expected_byte_count

\* C3: every from_knx call returns an object whatever octets it is given; none
\* raises.
C3_DecodeNeverRaises == raised = "none"

\* C4: KNXHIDFrame.from_knx of fewer than 64 octets, with either value of
\* partial, never returns a frame whose is_valid is true.
C4_ShortReportNeverValid ==
    ( /\ op \in {"KNXHIDFrame.from_knx", "KNXHIDFrame.from_knx(wire)"}
      /\ Len(data) < expected_byte_count )
    => ~(frame.present /\ frame.is_valid)

C4_Witness ==
    /\ op = "KNXHIDFrame.from_knx"
    /\ Len(data) = expected_byte_count - 1
    /\ raised = "none"
    /\ frame.present
    /\ frame.header.valid
    /\ ~frame.is_valid

\* C5: PacketInfo.from_knx of one octet returns an object carrying the high
\* nibble as sequence number exactly when the high nibble is in 1..5 and the
\* low nibble is a mapped packet type; for a high nibble of 0 or 6..15 it
\* returns no object; and no PacketInfo a from_knx call returned, alone or in
\* a header or a frame, carries a sequence number outside 1..5.
C5_DescriptorBoundary ==
    /\ (op = "PacketInfo.from_knx" /\ Len(data) = 1)
       => LET hi == data[1] \div 16
              lo == data[1] % 16
          IN  /\ (raised = "none" /\ packet_info.present
                    /\ packet_info.sequence_number = hi)
                 <=> (hi \in 1..5 /\ lo \in PacketType)
              /\ hi \notin 1..5 => ~packet_info.present
    /\ op = "PacketInfo.from_knx"
       => packet_info.sequence_number \in (1..5) \cup {None}
    /\ op = "KNXHIDReportHeader.from_knx"
       => header.packet_info.sequence_number \in (1..5) \cup {None}
    /\ op \in {"KNXHIDFrame.from_knx", "KNXHIDFrame.from_knx(wire)"}
       => frame.header.packet_info.sequence_number \in (1..5) \cup {None}

C5_Witness ==
    /\ op = "PacketInfo.from_knx"
    /\ data = <<83>>
    /\ raised = "none"
    /\ packet_info.sequence_number = 5

\* C6: a report body decoded from 61 octets, or built by from_data, has a
\* transfer header exactly when partial is false: with partial = true all 61
\* octets are the payload, whatever the first 8 are; with partial = false the
\* first 8 octets are the transfer header and the other 53 the payload.
C6_TransferHeaderIffNotPartial ==
    /\ (op = "KNXHIDReportBody.from_knx" /\ Len(data) = max_size)
       => /\ body.header.present <=> ~partial
          /\ partial => body.body.data = data
          /\ ~partial => /\ body.header.protocol_id = data[5]
                         /\ body.header.emi_id = data[6]
                         /\ body.body.data = SubSeq(data, 9, 61)
                         /\ Len(body.body.data) = 53
    /\ op = "KNXHIDReportBody.from_data"
       => /\ body.header.present <=> ~partial
          /\ body.body.data = data

C6_Witness ==
    /\ op = "KNXHIDReportBody.from_knx"
    /\ Len(data) = max_size
    /\ partial
    /\ KNXUSBTransferProtocolHeader_from_knx(SubSeq(data, 1, 8)).is_valid
    /\ ~body.header.present
    /\ Len(body.body.data) = 61

\* C7: for a frame built by from_data with partial = false and a payload of n
\* octets, 0 <= n <= 53, the header's data_length is the body's length, which
\* is 8 + n, and octet 2 of the encoded frame is 8 + n.
C7_DataLengthIsBodyLength ==
    (FrameIsBuilt /\ ~partial /\ Len(data) <= 53)
    => /\ frame.header.data_length = KNXHIDReportBody_length(frame.body)
       /\ frame.header.data_length = 8 + Len(data)
       /\ op = "KNXHIDFrame.to_knx" => wire[3] = 8 + Len(data)

C7_Witness ==
    /\ FrameIsBuilt
    /\ op = "KNXHIDFrame.to_knx"
    /\ ~partial
    /\ Len(data) = 10
    /\ Len(wire) = 64
    /\ wire[3] = 18

\* C8: a report header whose is_valid is true has report_id = 1 and
\* data_length <= 61, after from_knx, from_data and any report_id assignments.
C8_ValidHeaderIsWellFormed ==
    (header.present /\ header.valid)
    => header.report_id = 1 /\ header.data_length <= 61

\* C9: the length of a report body that holds a payload is the payload's own
\* length when partial is true, built or decoded, and the transfer header's
\* length plus the payload's when partial is false.
C9_BodyLength ==
    ( /\ op \in {"KNXHIDReportBody.from_data", "KNXHIDReportBody.from_knx"}
      /\ body.body.present )
    => KNXHIDReportBody_length(body)
         = IF partial
           THEN Len(body.body.data)
           ELSE body.header.header_length + Len(body.body.data)

\* C10: a frame whose is_valid is true, built or decoded, partial or not, has
\* a report header whose is_valid is true.
C10_ValidFrameHasValidHeader ==
    (frame.present /\ frame.is_valid)
    => frame.header.present /\ frame.header.valid

C10_Witness ==
    /\ op = "KNXHIDFrame.from_data"
    /\ partial
    /\ Len(data) > max_size
    /\ frame.is_valid
    /\ frame.header.valid

====
